---- MODULE Spec2Model ----
(***************************************************************************)
(* Model of tap_s3_csv/sync.py: sync_stream (the per-table orchestrator)   *)
(* and sync_table_file (the per-file row loop), with the bookmark state,   *)
(* the persisted STATE message, the record sink and the S3 bucket.         *)
(***************************************************************************)
EXTENDS Integers, Sequences, FiniteSets, TLC

\* ---------------------------------------------------------------- bounds
NumFiles == 2      \* objects in the bucket that match the table spec
MaxTs    == 2      \* last_modified values are 1..MaxTs
MaxRows  == 3      \* rows per file
MaxRuns  == 2      \* consecutive invocations of sync_stream
MaxFaults == 1     \* storage failures (discovery or fetch) in one behaviour
MaxNodes == 4      \* scalars and containers in an argument of set_empty_values_null

Keys       == 1..NumFiles
Timestamps == 1..MaxTs

\* The two kinds of row a file holds: one that conforms to stream["schema"]
\* and one that makes transformer.transform raise (row_of gives their fields).
Rows == {"ok", "bad"}

RowSeqs == UNION {[1..n -> Rows] : n \in 0..MaxRows}

\* Object keys are only labels (discovery may return the objects in any
\* order), so the bucket is taken with its objects in one fixed order.
RECURSIVE RowsCode(_)
RowsCode(rs) ==
    IF rs = <<>> THEN 0
    ELSE (IF Head(rs) = "ok" THEN 1 ELSE 2) + 3 * RowsCode(Tail(rs))

FileLeq(f, g) ==
    \/ f["last_modified"] < g["last_modified"]
    \/ /\ f["last_modified"] = g["last_modified"]
       /\ RowsCode(f["rows"]) <= RowsCode(g["rows"])

\* ------------------------------------------------- timestamps as strings
\* datetime.isoformat(): a fixed-width, zero-padded decimal rendering.
isoformat(t) == <<t \div 10, t % 10>>

\* utils.strptime_with_tz(): parses the decimal rendering back.
strptime_with_tz(s) == s[1] * 10 + s[2]

\* ------------------------------------------------------- singer bookmarks
\* The state maps <<table, bookmark key>> to a value; an absent entry reads
\* as None, written here as the empty sequence (falsy, as in Python).
None == <<>>

get_bookmark(st, table, key) ==
    IF <<table, key>> \in DOMAIN st THEN st[<<table, key>>] ELSE None

write_bookmark_dropped(st, table, key, val) == st

write_bookmark(st, table, key, val) ==
    [p \in DOMAIN st \cup {<<table, key>>} |->
        IF p = <<table, key>> THEN val ELSE st[p]]

\* Python's `a or b`.
Or_preferring_second(a, b) == IF b = None THEN a ELSE b

Or(a, b) == IF a = None THEN b ELSE a

\* Python's dict.get(key, default).
get(d, key, default) == IF key \in DOMAIN d THEN d[key] ELSE default

\* ------------------------------------------------------------- sorting
\* sorted(s3_files, key=lambda item: item["last_modified"]): a stable sort,
\* written as insertion of each element after every element whose key is
\* not greater.
RECURSIVE Insert(_, _)
Insert(s, f) ==
    IF s = <<>> THEN <<f>>
    ELSE IF s[Len(s)]["last_modified"] <= f["last_modified"]
         THEN Append(s, f)
         ELSE Append(Insert(SubSeq(s, 1, Len(s) - 1), f), s[Len(s)])

RECURSIVE InsertAll(_, _)
InsertAll(acc, s) ==
    IF s = <<>> THEN acc ELSE InsertAll(Insert(acc, Head(s)), Tail(s))

sorted_unsorted(s) == s

sorted(s) == InsertAll(<<>>, s)

\* ------------------------------------------------------- Python values
\* A value is a record with one field that names its type.  A string is a
\* sequence of characters; a container holds its children in order (a dict
\* as <<key, child>> pairs in insertion order).  The same shapes describe
\* objects on the heap, where a child is the id of another object.
PyNone == [none |-> TRUE]
PyStr(s) == [str |-> s]
PyInt(n) == [int |-> n]
PyList(items) == [list |-> items]
PyTuple(items) == [tuple |-> items]
PyDict(items) == [dict |-> items]

is_dict(o) == "dict" \in DOMAIN o
is_list(o) == "list" \in DOMAIN o
is_tuple(o) == "tuple" \in DOMAIN o

children(o) ==
    IF is_list(o) THEN o["list"]
    ELSE IF is_tuple(o) THEN o["tuple"]
    ELSE IF is_dict(o) THEN [i \in DOMAIN o["dict"] |-> o["dict"][i][2]]
    ELSE <<>>

with_children(o, cs) ==
    IF is_list(o) THEN PyList(cs)
    ELSE IF is_tuple(o) THEN PyTuple(cs)
    ELSE IF is_dict(o)
         THEN PyDict([i \in DOMAIN o["dict"] |-> <<o["dict"][i][1], cs[i]>>])
    ELSE o

Whitespace == {" ", "\t"}

\* str(x): only whether the rendering is all whitespace matters, and the
\* rendering of anything but a string never is.
str(o) ==
    IF "str" \in DOMAIN o THEN o["str"]
    ELSE IF "int" \in DOMAIN o THEN <<"0">>
    ELSE IF "none" \in DOMAIN o THEN <<"N", "o", "n", "e">>
    ELSE IF is_list(o) THEN <<"[", "]">>
    ELSE IF is_tuple(o) THEN <<"(", ")">>
    ELSE <<"{", "}">>

isspace(s) == s # <<>> /\ \A i \in DOMAIN s : s[i] \in Whitespace

\* Line 86: input_row == "" or str(input_row).isspace()
is_blank_only_empty(o) == "str" \in DOMAIN o /\ o["str"] = <<>>

is_blank(o) == ("str" \in DOMAIN o /\ o["str"] = <<>>) \/ isspace(str(o))

\* ------------------------------------------------------------ the heap
\* A heap is a sequence of objects, an object's id its index.  None is the
\* object with id 1 in every heap.
NoneId == 1
EmptyHeap == <<PyNone>>

\* What a call yields instead of an id when it raised.
Raised == 0
TypeError == [raised |-> "TypeError"]

\* copy.deepcopy: fresh lists and dicts all the way down; strings, numbers
\* and None are returned as they are, and so is a tuple none of whose
\* elements had to be copied.
RECURSIVE deepcopy(_, _)
RECURSIVE deepcopy_items(_, _, _)
deepcopy_items(h, ids, acc) ==
    IF ids = <<>> THEN [h |-> h, r |-> acc]
    ELSE LET c == deepcopy(h, Head(ids))
         IN deepcopy_items(c["h"], Tail(ids), Append(acc, c["r"]))

deepcopy_alias(h, id) == [h |-> h, r |-> id]

deepcopy(h, id) ==
    LET o == h[id]
        c == deepcopy_items(h, children(o), <<>>)
    IN IF is_list(o) \/ is_dict(o)
       THEN [h |-> Append(c["h"], with_children(o, c["r"])),
             r |-> Len(c["h"]) + 1]
       ELSE IF is_tuple(o) /\ c["r"] # o["tuple"]
       THEN [h |-> Append(c["h"], PyTuple(c["r"])), r |-> Len(c["h"]) + 1]
       ELSE [h |-> h, r |-> id]

\* ret[dict_key] = value: item assignment, which a tuple does not support.
setitem(h, ret, i, val) ==
    [h EXCEPT ![ret] = with_children(h[ret],
                          [children(h[ret]) EXCEPT ![i] = val])]

\* Lines 77-89.  The two for loops are scrub_items: each takes the children
\* of ret in order, calls set_empty_values_null on the child and assigns the
\* result back into ret.
RECURSIVE set_empty_values_null(_, _)
RECURSIVE scrub_items(_, _, _)
set_empty_values_null_stringifying(h, input_row) ==
    LET o == h[input_row]
        c == deepcopy(h, input_row)
        s == IF is_dict(o) \/ is_list(o) \/ is_tuple(o)
             THEN scrub_items(c["h"], c["r"], 1)
             ELSE [h |-> Append(h, PyStr(str(o))), r |-> Len(h) + 1]
    IN IF s["r"] = Raised THEN s
       ELSE IF is_blank(o) THEN [h |-> s["h"], r |-> NoneId]
       ELSE s

scrub_items(h, ret, i) ==
    IF i > Len(children(h[ret])) THEN [h |-> h, r |-> ret]
    ELSE LET c == set_empty_values_null(h, children(h[ret])[i])
         IN IF c["r"] = Raised THEN c
            ELSE IF is_tuple(h[ret]) THEN [h |-> c["h"], r |-> Raised]
            ELSE scrub_items(setitem(c["h"], ret, i, c["r"]), ret, i + 1)

set_empty_values_null(h, input_row) ==
    LET o == h[input_row]
        c == deepcopy(h, input_row)
        s == IF is_dict(o) \/ is_list(o) \/ is_tuple(o)
             THEN scrub_items(c["h"], c["r"], 1)
             ELSE c
    IN IF s["r"] = Raised THEN s
       ELSE IF is_blank(o) THEN [h |-> s["h"], r |-> NoneId]
       ELSE s

\* ------------------------------------------------- values on and off the heap
RECURSIVE build(_, _)
RECURSIVE build_items(_, _, _)
build_items(h, vs, acc) ==
    IF vs = <<>> THEN [h |-> h, r |-> acc]
    ELSE LET c == build(h, Head(vs))
         IN build_items(c["h"], Tail(vs), Append(acc, c["r"]))

\* The heap h extended with the objects of value v.
build(h, v) ==
    IF "none" \in DOMAIN v THEN [h |-> h, r |-> NoneId]
    ELSE LET c == build_items(h, children(v), <<>>)
         IN [h |-> Append(c["h"], with_children(v, c["r"])),
             r |-> Len(c["h"]) + 1]

\* The value the object id stands for.
RECURSIVE value_of(_, _)
value_of(h, id) ==
    with_children(h[id],
        [i \in DOMAIN children(h[id]) |-> value_of(h, children(h[id])[i])])

\* set_empty_values_null as a function of values: the result, or TypeError.
normalize(v) ==
    LET b == build(EmptyHeap, v)
        c == set_empty_values_null(b["h"], b["r"])
    IN IF c["r"] = Raised THEN TypeError ELSE value_of(c["h"], c["r"])

\* ----------------------------------------------------------------- state
VARIABLES
    bucket,            \* key -> [last_modified, rows]: the objects in S3
    config,            \* the tap configuration
    state,             \* the bookmark state sync_stream works on
    persisted,         \* the state last handed to write_state
    state0,            \* history: the state sync_stream was called with
    pc,                \* where sync_stream / sync_table_file stands
    run,               \* number of sync_stream invocations started
    modified_since,    \* the starting watermark of the current run
    s3_files,          \* what discovery returned, in its order
    todo,              \* the sorted files the for loop still has to visit
    s3_file,           \* the loop variable of sync_stream
    records_streamed,  \* sync_stream's running total
    row_idx,           \* rows the iterator has yielded in the current file
    records_synced,    \* sync_table_file's counter
    handles,           \* byte streams obtained and not closed
    emitted,           \* the record sink: every write_record so far
    handed,            \* history: files handed to sync_table_file
    returned,          \* history: sync_table_file calls that returned
    written,           \* history: bookmark writes
    state_messages,    \* history: every write_state call so far
    errors,            \* history: per run, what it raised ("none" if nothing)
    heap,              \* the objects a call of set_empty_values_null works on
    input_row,         \* the id of the argument of set_empty_values_null
    ret,               \* the ids successive calls returned (Raised if raised)
    heap0              \* history: the heap before the first call

vars == <<bucket, config, state, persisted, state0, pc, run, modified_since, s3_files,
          todo, s3_file, records_streamed, row_idx, records_synced, handles,
          emitted, handed, returned, written, state_messages, errors, heap,
          input_row, ret, heap0>>

nullvars == <<heap, input_row, ret, heap0>>

\* table_spec: the table's base name.
table_spec == [table_name |-> <<"table">>]

table_name_unsuffixed == table_spec["table_name"]

\* Lines 40 and 104: table_spec["table_name"] + config.get("table_suffix", "").
table_name == table_spec["table_name"] \o get(config, "table_suffix", <<>>)

\* Another table of the same tap.
other_table == <<"other">>

\* The configurations: with and without the optional keys, and one without
\* the required start_date.
Configs ==
    {[bucket |-> "b", start_date |-> isoformat(0)],
     [bucket |-> "b", start_date |-> isoformat(1),
      set_empty_values_null |-> FALSE, table_suffix |-> <<"_v2">>],
     [bucket |-> "b", start_date |-> isoformat(0),
      set_empty_values_null |-> TRUE],
     [bucket |-> "b"]}

\* The state the tap is started with: bookmarks of other tables and another
\* bookmark of this table; this table's modified_since only where the
\* configuration has no start_date to fall back on.
initial_state(cfg, own) ==
    LET tbl == table_spec["table_name"] \o get(cfg, "table_suffix", <<>>)
        entries == {<<other_table, "modified_since">>, <<tbl, "version">>}
                     \cup (IF "table_suffix" \in DOMAIN cfg
                           THEN {<<table_spec["table_name"], "modified_since">>}
                           ELSE {})
                     \cup (IF own THEN {<<tbl, "modified_since">>} ELSE {})
    IN [p \in entries |->
          IF p = <<tbl, "modified_since">> THEN isoformat(1)
          ELSE IF p[2] = "version" THEN <<7>>
          ELSE isoformat(0)]

NoFile == [key |-> 0, last_modified |-> 0]

Init ==
    /\ bucket \in [Keys -> [last_modified : Timestamps, rows : RowSeqs]]
    /\ \A k \in Keys : k + 1 \in Keys => FileLeq(bucket[k], bucket[k + 1])
    /\ config \in Configs
    /\ \E own \in BOOLEAN :
          /\ own => "start_date" \notin DOMAIN config
          /\ state = initial_state(config, own)
    /\ persisted = state
    /\ state0 = state
    /\ pc = "idle"
    /\ run = 0
    /\ modified_since = 0
    /\ s3_files = <<>>
    /\ todo = <<>>
    /\ s3_file = NoFile
    /\ records_streamed = 0
    /\ row_idx = 0
    /\ records_synced = 0
    /\ handles = {}
    /\ emitted = <<>>
    /\ handed = <<>>
    /\ returned = <<>>
    /\ written = <<>>
    /\ state_messages = <<>>
    /\ errors = <<>>
    /\ heap = EmptyHeap
    /\ input_row = NoneId
    /\ ret = <<>>
    /\ heap0 = EmptyHeap

\* ---------------------------------------- arguments of set_empty_values_null
Scalars == {PyStr(<<>>), PyStr(<<" ">>), PyStr(<<"a">>), PyInt(0), PyNone}

DictKeys == <<"a", "b", "c", "d", "e", "f">>

\* The values with exactly k nodes, and the sequences of values with m nodes
\* in all.  The keys of a dict are the first names of DictKeys.
RECURSIVE ValuesOfSize(_)
RECURSIVE ForestsOfSize(_)
ValuesOfSize(k) ==
    (IF k = 1 THEN Scalars ELSE {})
        \cup {PyList(f) : f \in ForestsOfSize(k - 1)}
        \cup {PyTuple(f) : f \in ForestsOfSize(k - 1)}
        \cup {PyDict([i \in DOMAIN f |-> <<DictKeys[i], f[i]>>]) :
                 f \in ForestsOfSize(k - 1)}

ForestsOfSize(m) ==
    IF m = 0 THEN {<<>>}
    ELSE UNION {{<<v>> \o f : v \in ValuesOfSize(j), f \in ForestsOfSize(m - j)} :
                   j \in 1..m}

\* The example of the specification:
\* {"a": "", "b": [" ", "x", {"c": ""}]}.
Example ==
    PyDict(<<<<"a", PyStr(<<>>)>>,
             <<"b", PyList(<<PyStr(<<" ">>), PyStr(<<"x">>),
                             PyDict(<<<<"c", PyStr(<<>>)>>>>)>>)>>>>)

Values == UNION {ValuesOfSize(k) : k \in 1..MaxNodes} \cup {Example}

mainvars == <<bucket, config, state, persisted, state0, pc, run, modified_since,
              s3_files, todo, s3_file, records_streamed, row_idx,
              records_synced, handles, emitted, handed, returned, written,
              state_messages, errors>>

\* A call of set_empty_values_null on its own: the argument is any value,
\* laid out on the heap; sync_stream is not running.
InitNull ==
    /\ \E v \in Values :
          LET b == build(EmptyHeap, v)
          IN /\ heap = b["h"]
             /\ heap0 = b["h"]
             /\ input_row = b["r"]
    /\ ret = <<>>
    /\ bucket = <<>>
    /\ config = [bucket |-> "b", set_empty_values_null |-> TRUE]
    /\ state = <<>>
    /\ persisted = <<>>
    /\ state0 = <<>>
    /\ pc = "idle"
    /\ run = 0
    /\ modified_since = 0
    /\ s3_files = <<>>
    /\ todo = <<>>
    /\ s3_file = NoFile
    /\ records_streamed = 0
    /\ row_idx = 0
    /\ records_synced = 0
    /\ handles = {}
    /\ emitted = <<>>
    /\ handed = <<>>
    /\ returned = <<>>
    /\ written = <<>>
    /\ state_messages = <<>>
    /\ errors = <<>>

\* set_empty_values_null(input_row).
call_set_empty_values_null ==
    /\ ret = <<>>
    /\ LET c == set_empty_values_null(heap, input_row)
       IN /\ heap' = c["h"]
          /\ ret' = <<c["r"]>>
    /\ UNCHANGED <<input_row, heap0, mainvars>>

\* set_empty_values_null applied to what the first call returned.
call_set_empty_values_null_again ==
    /\ Len(ret) = 1
    /\ ret[1] # Raised
    /\ LET c == set_empty_values_null(heap, ret[1])
       IN /\ heap' = c["h"]
          /\ ret' = Append(ret, c["r"])
    /\ UNCHANGED <<input_row, heap0, mainvars>>

NextNull ==
    \/ call_set_empty_values_null
    \/ call_set_empty_values_null_again

SpecNull == InitNull /\ [][NextNull]_vars

\* ------------------------------------------------------------ discovery
\* s3.get_input_files_for_table(config, table_spec, modified_since): the
\* objects modified after the watermark, as {key, last_modified} items in
\* an order the caller cannot rely on.
Orderings(S) ==
    {s \in [1..Cardinality(S) -> S] : \A i, j \in DOMAIN s : s[i] = s[j] => i = j}

get_input_files_for_table(b, since) ==
    Orderings({[key |-> k, last_modified |-> b[k]["last_modified"]] :
                  k \in {x \in DOMAIN b : b[x]["last_modified"] > since}})

\* records_synced += 1
records_synced_unchanged(n) == n

records_synced_incr(n) == n + 1

\* The rows the iterator yields: what a row of each kind holds, every field
\* a string as read from the file.
row_of ==
    [t \in Rows |->
        IF t = "ok"
        THEN PyDict(<<<<"name", PyStr(<<>>)>>, <<"age", PyStr(<<"5">>)>>>>)
        ELSE PyDict(<<<<"name", PyStr(<<" ">>)>>, <<"age", PyStr(<<"x">>)>>>>)]

Digits == <<"0", "1", "2", "3", "4", "5", "6", "7", "8", "9">>

is_integer(o) ==
    /\ "str" \in DOMAIN o
    /\ o["str"] # <<>>
    /\ \A i \in DOMAIN o["str"] : \E d \in DOMAIN Digits : Digits[d] = o["str"][i]

field(row, name) ==
    LET i == CHOOSE j \in DOMAIN row["dict"] : row["dict"][j][1] = name
    IN row["dict"][i][2]

\* transformer.transform(row, schema, metadata) for a schema with a nullable
\* string "name" and a nullable integer "age": it raises on a row that
\* violates the schema and returns the typed record otherwise.
transform_raises(row) ==
    ~("none" \in DOMAIN field(row, "age") \/ is_integer(field(row, "age")))

int(o) ==
    LET d == CHOOSE j \in DOMAIN Digits : Digits[j] = o["str"][1]
    IN PyInt(d - 1)

transform(row) ==
    PyDict(<<<<"name", field(row, "name")>>,
             <<"age", IF "none" \in DOMAIN field(row, "age") THEN PyNone
                      ELSE int(field(row, "age"))>>>>)

\* Line 122: config.get("set_empty_values_null", False).
flag_ignored(cfg) == FALSE

flag(cfg) == get(cfg, "set_empty_values_null", FALSE)

\* set_empty_values_null(row) for the rows the iterator can yield.
normalized == [t \in Rows |-> normalize(row_of[t])]

\* Lines 122-123: the row as it is handed to the transformer.
row_for_transformer(cfg, t) == IF flag(cfg) THEN normalized[t] ELSE row_of[t]

\* ------------------------------------------------------------ sync_stream
\* Line 41: get_bookmark(...) or config["start_date"] finds a value.
start_resolvable ==
    \/ get_bookmark(state, table_name, "modified_since") # None
    \/ "start_date" \in DOMAIN config

\* Lines 40-48: resolve the watermark, list the files, sort them.
sync_stream_begin ==
    /\ pc \in {"idle", "done", "raised"}
    /\ run < MaxRuns
    /\ start_resolvable
    /\ LET since == strptime_with_tz(
                        Or(get_bookmark(state, table_name, "modified_since"),
                           get(config, "start_date", None)))
       IN /\ modified_since' = since
          /\ \E files \in get_input_files_for_table(bucket, since) :
                /\ s3_files' = files
                /\ todo' = sorted(files)
    /\ run' = run + 1
    /\ records_streamed' = 0
    /\ s3_file' = NoFile
    /\ row_idx' = 0
    /\ records_synced' = 0
    /\ pc' = "loop"
    /\ errors' = Append(errors, "none")
    /\ state0' = state
    /\ UNCHANGED <<bucket, config, state, persisted, handles, emitted,
                   handed, returned, written>>
    /\ UNCHANGED nullvars
    /\ UNCHANGED state_messages

\* Line 41 when there is neither a bookmark nor a start_date: the lookup
\* config["start_date"] raises KeyError, before anything else has happened.
sync_stream_config_error ==
    /\ pc \in {"idle", "done", "raised"}
    /\ run < MaxRuns
    /\ ~start_resolvable
    /\ run' = run + 1
    /\ errors' = Append(errors, "KeyError")
    /\ pc' = "raised"
    /\ state0' = state
    /\ s3_files' = <<>>
    /\ todo' = <<>>
    /\ s3_file' = NoFile
    /\ records_streamed' = 0
    /\ row_idx' = 0
    /\ records_synced' = 0
    /\ UNCHANGED <<bucket, config, state, persisted, modified_since, handles,
                   emitted, handed, returned, written, nullvars>>
    /\ UNCHANGED state_messages

\* The storage failures so far.
faults == Len(SelectSeq(errors, LAMBDA e : e \in {"discovery", "fetch"}))

\* Line 46 when s3.get_input_files_for_table raises (storage unreachable):
\* nothing catches it.
sync_stream_discovery_error ==
    /\ pc \in {"idle", "done", "raised"}
    /\ run < MaxRuns
    /\ faults < MaxFaults
    /\ start_resolvable
    /\ modified_since' = strptime_with_tz(
                             Or(get_bookmark(state, table_name, "modified_since"),
                                get(config, "start_date", None)))
    /\ run' = run + 1
    /\ errors' = Append(errors, "discovery")
    /\ pc' = "raised"
    /\ state0' = state
    /\ s3_files' = <<>>
    /\ todo' = <<>>
    /\ s3_file' = NoFile
    /\ records_streamed' = 0
    /\ row_idx' = 0
    /\ records_synced' = 0
    /\ UNCHANGED <<bucket, config, state, persisted, handles, emitted, handed,
                   returned, written, nullvars>>
    /\ UNCHANGED state_messages

\* Lines 54-55 and 101-106 when s3.get_file_handle raises (file missing):
\* sync_table_file has been called for the file but has no stream.
sync_table_file_fetch_error_swallowed ==
    /\ pc = "loop"
    /\ todo # <<>>
    /\ faults < MaxFaults
    /\ s3_file' = Head(todo)
    /\ todo' = Tail(todo)
    /\ handed' = Append(handed, [run |-> run, key |-> Head(todo)["key"]])
    /\ errors' = [errors EXCEPT ![run] = "fetch"]
    /\ pc' = "loop"
    /\ UNCHANGED <<bucket, config, state, persisted, state0, run, modified_since,
                   s3_files, records_streamed, row_idx, records_synced, handles,
                   emitted, returned, written, nullvars>>
    /\ UNCHANGED state_messages

sync_table_file_fetch_error ==
    /\ pc = "loop"
    /\ todo # <<>>
    /\ faults < MaxFaults
    /\ s3_file' = Head(todo)
    /\ todo' = Tail(todo)
    /\ handed' = Append(handed, [run |-> run, key |-> Head(todo)["key"]])
    /\ errors' = [errors EXCEPT ![run] = "fetch"]
    /\ pc' = "raised"
    /\ UNCHANGED <<bucket, config, state, persisted, state0, run, modified_since,
                   s3_files, records_streamed, row_idx, records_synced, handles,
                   emitted, returned, written, nullvars>>
    /\ UNCHANGED state_messages

\* Lines 54-55 and 101-117: the loop takes the next file and calls
\* sync_table_file, which obtains the byte stream and the row iterator.
sync_table_file_begin ==
    /\ pc = "loop"
    /\ todo # <<>>
    /\ s3_file' = Head(todo)
    /\ todo' = Tail(todo)
    /\ handles' = handles \cup {[run |-> run, key |-> Head(todo)["key"]]}
    /\ handed' = Append(handed, [run |-> run, key |-> Head(todo)["key"]])
    /\ row_idx' = 0
    /\ records_synced' = 0
    /\ pc' = "rows"
    /\ UNCHANGED <<bucket, config, state, persisted, state0, run, modified_since,
                   s3_files, records_streamed, emitted, returned, written>>
    /\ UNCHANGED <<errors, nullvars>>
    /\ UNCHANGED state_messages

\* Lines 119-129: one iteration of the row loop. A transform failure is
\* not caught anywhere and ends sync_table_file and sync_stream.
sync_table_file_row_skipping ==
    /\ pc = "rows"
    /\ row_idx < Len(bucket[s3_file["key"]]["rows"])
    /\ row_idx' = row_idx + 1
    /\ LET row == row_for_transformer(config,
                      bucket[s3_file["key"]]["rows"][row_idx + 1])
       IN IF transform_raises(row)
          THEN UNCHANGED <<emitted, records_synced>>
          ELSE /\ emitted' = Append(emitted,
                     [run |-> run, table |-> table_name,
                      key |-> s3_file["key"], row |-> row_idx + 1,
                      record |-> transform(row)])
               /\ records_synced' = records_synced_incr(records_synced)
    /\ UNCHANGED <<bucket, config, state, persisted, state0, pc, run, modified_since,
                   s3_files, todo, s3_file, records_streamed, handles, handed,
                   returned, written>>
    /\ UNCHANGED <<errors, nullvars>>
    /\ UNCHANGED state_messages

sync_table_file_row ==
    /\ pc = "rows"
    /\ row_idx < Len(bucket[s3_file["key"]]["rows"])
    /\ row_idx' = row_idx + 1
    /\ LET row == row_for_transformer(config,
                      bucket[s3_file["key"]]["rows"][row_idx + 1])
       IN IF transform_raises(row)
          THEN /\ pc' = "raised"
               /\ errors' = [errors EXCEPT ![run] = "transform"]
               /\ UNCHANGED <<emitted, records_synced>>
          ELSE /\ emitted' = Append(emitted,
                     [run |-> run, table |-> table_name,
                      key |-> s3_file["key"], row |-> row_idx + 1,
                      record |-> transform(row)])
               /\ records_synced' = records_synced_incr(records_synced)
               /\ pc' = "rows"
               /\ errors' = errors
    /\ UNCHANGED <<bucket, config, state, persisted, state0, run, modified_since,
                   s3_files, todo, s3_file, records_streamed, handles, handed,
                   returned, written>>
    /\ UNCHANGED nullvars
    /\ UNCHANGED state_messages

sync_table_file_return_in_loop ==
    /\ pc = "rows"
    /\ \/ row_idx = Len(bucket[s3_file["key"]]["rows"])
       \/ row_idx >= 1
    /\ records_streamed' = records_streamed + records_synced
    /\ returned' = Append(returned, [run |-> run, key |-> s3_file["key"],
                                     count |-> records_synced])
    /\ \E finalized \in BOOLEAN :
          handles' = IF finalized
                     THEN handles \ {[run |-> run, key |-> s3_file["key"]]}
                     ELSE handles
    /\ pc' = "bookmark"
    /\ UNCHANGED <<bucket, config, state, persisted, state0, run, modified_since,
                   s3_files, todo, s3_file, row_idx, records_synced, emitted,
                   handed, written>>
    /\ UNCHANGED <<errors, nullvars>>
    /\ UNCHANGED state_messages

\* Lines 131 and 55: the iterator is exhausted, sync_table_file returns its
\* count and sync_stream adds it to the total. The byte stream is never
\* closed by the code; once the frame is gone the interpreter may or may
\* not have finalized it.
sync_table_file_return ==
    /\ pc = "rows"
    /\ row_idx = Len(bucket[s3_file["key"]]["rows"])
    /\ records_streamed' = records_streamed + records_synced
    /\ returned' = Append(returned, [run |-> run, key |-> s3_file["key"],
                                     count |-> records_synced])
    /\ \E finalized \in BOOLEAN :
          handles' = IF finalized
                     THEN handles \ {[run |-> run, key |-> s3_file["key"]]}
                     ELSE handles
    /\ pc' = "bookmark"
    /\ UNCHANGED <<bucket, config, state, persisted, state0, run, modified_since,
                   s3_files, todo, s3_file, row_idx, records_synced, emitted,
                   handed, written>>
    /\ UNCHANGED <<errors, nullvars>>
    /\ UNCHANGED state_messages

\* Lines 57-62: state = write_bookmark(state, table_name, "modified_since",
\* s3_file["last_modified"].isoformat()).
sync_stream_write_bookmark ==
    /\ pc = "bookmark"
    /\ state' = write_bookmark(state, table_name, "modified_since",
                               isoformat(s3_file["last_modified"]))
    /\ written' = Append(written,
          [run |-> run, key |-> s3_file["key"],
           old |-> get_bookmark(state, table_name, "modified_since"),
           new |-> isoformat(s3_file["last_modified"])])
    /\ pc' = "persist"
    /\ UNCHANGED <<bucket, config, persisted, state0, run, modified_since, s3_files,
                   todo, s3_file, records_streamed, row_idx, records_synced,
                   handles, emitted, handed, returned>>
    /\ UNCHANGED <<errors, nullvars>>
    /\ UNCHANGED state_messages

\* Line 63: write_state(state).
sync_stream_write_state ==
    /\ pc = "persist"
    /\ persisted' = state
    /\ state_messages' = Append(state_messages,
          [run |-> run, key |-> s3_file["key"], state |-> state])
    /\ pc' = "loop"
    /\ UNCHANGED <<bucket, config, state, state0, run, modified_since, s3_files, todo,
                   s3_file, records_streamed, row_idx, records_synced, handles,
                   emitted, handed, returned, written>>
    /\ UNCHANGED <<errors, nullvars>>

sync_stream_return_persisting ==
    /\ pc = "loop"
    /\ todo = <<>>
    /\ pc' = "done"
    /\ persisted' = state
    /\ state_messages' = Append(state_messages,
          [run |-> run, key |-> s3_file["key"], state |-> state])
    /\ UNCHANGED <<bucket, config, state, state0, run, modified_since,
                   s3_files, todo, s3_file, records_streamed, row_idx,
                   records_synced, handles, emitted, handed, returned, written>>
    /\ UNCHANGED <<errors, nullvars>>

\* Lines 65-67: the loop is over, sync_stream returns records_streamed.
sync_stream_return ==
    /\ pc = "loop"
    /\ todo = <<>>
    /\ pc' = "done"
    /\ UNCHANGED <<bucket, config, state, persisted, state0, run, modified_since,
                   s3_files, todo, s3_file, records_streamed, row_idx,
                   records_synced, handles, emitted, handed, returned, written>>
    /\ UNCHANGED <<errors, nullvars>>
    /\ UNCHANGED state_messages

Next ==
    \/ sync_stream_begin
    \/ sync_stream_config_error
    \/ sync_stream_discovery_error
    \/ sync_table_file_fetch_error
    \/ sync_table_file_begin
    \/ sync_table_file_row
    \/ sync_table_file_return
    \/ sync_stream_write_bookmark
    \/ sync_stream_write_state
    \/ sync_stream_return

Spec == Init /\ [][Next]_vars

TypeOK ==
    /\ pc \in {"idle", "loop", "rows", "bookmark", "persist", "done", "raised"}
    /\ run \in 0..MaxRuns
    /\ modified_since \in 0..MaxTs

\* ------------------------------------------------- vocabulary of the claims
bookmark(st) == get_bookmark(st, table_name, "modified_since")

\* What the current run raised.
error == IF run = 0 THEN "none" ELSE errors[run]

\* The call of sync_table_file for handed[i] failed to open the file.
FetchFailed(i) ==
    /\ errors[handed[i]["run"]] = "fetch"
    /\ \A j \in DOMAIN handed : j > i => handed[j]["run"] > handed[i]["run"]

\* The watermark of the first run.
FirstWatermark ==
    IF "start_date" \in DOMAIN config
    THEN strptime_with_tz(config["start_date"])
    ELSE strptime_with_tz(bookmark(initial_state(config, TRUE)))

ts(k) == bucket[k]["last_modified"]
rows(k) == bucket[k]["rows"]


\* The transformer rejects a row of kind t under the configuration.
RowFails(t) == transform_raises(row_for_transformer(config, t))

\* Index of the first row of file k the transformer rejects, or
\* Len(rows(k)) + 1 when every row passes.
FirstBad(k) ==
    IF \E i \in DOMAIN rows(k) : RowFails(rows(k)[i])
    THEN CHOOSE i \in DOMAIN rows(k) :
            /\ RowFails(rows(k)[i])
            /\ \A j \in 1..(i - 1) : ~RowFails(rows(k)[j])
    ELSE Len(rows(k)) + 1

AllRowsPass(k) == FirstBad(k) = Len(rows(k)) + 1

Indices(seq, r) == {i \in DOMAIN seq : seq[i]["run"] = r}

\* The entries of a history that belong to run r, in order.
OfRun(seq, r) == SelectSeq(seq, LAMBDA e : e["run"] = r)

Last(seq) == seq[Len(seq)]

DiscoveredKeys == {s3_files[i]["key"] : i \in DOMAIN s3_files}

\* C1 as stated: in every run the files reach sync_table_file in strictly
\* ascending order of last_modified.
C1_StrictlyAscending ==
    \A i, j \in DOMAIN handed :
        (i < j /\ handed[i]["run"] = handed[j]["run"])
            => ts(handed[i]["key"]) < ts(handed[j]["key"])

\* C1 amended: in every run, whatever the order discovery returned, the
\* files reach sync_table_file in ascending (non-decreasing) order of
\* last_modified; two files are handed over in an order that contradicts
\* neither their timestamps nor, when the timestamps are equal, the order
\* discovery returned them in.
C1_Ascending ==
    /\ \A i, j \in DOMAIN handed :
          (i < j /\ handed[i]["run"] = handed[j]["run"])
              => ts(handed[i]["key"]) <= ts(handed[j]["key"])
    /\ \A i, j \in DOMAIN s3_files :
          LET a == s3_files[i]["key"]
              b == s3_files[j]["key"]
              later(x, y) == \E m, n \in Indices(handed, run) :
                                /\ m < n
                                /\ handed[m]["key"] = y
                                /\ handed[n]["key"] = x
          IN (i < j /\ ts(a) = ts(b)) => ~later(a, b)

C1_Witness ==
    /\ Len(s3_files) >= 2
    /\ s3_files[1]["last_modified"] > s3_files[2]["last_modified"]
    /\ Len(OfRun(handed, run)) >= 2
    /\ OfRun(handed, run)[1]["key"] = s3_files[2]["key"]
    /\ OfRun(handed, run)[2]["key"] = s3_files[1]["key"]

\* C2: once sync_table_file has returned for a file and sync_stream has got
\* past lines 57-63, and in particular while the next file is being synced,
\* the modified_since bookmark is that file's last_modified in ISO form and
\* the persisted state carries the same bookmark.
C2_BookmarkPersistedPerFile ==
    (pc \in {"loop", "rows", "raised", "done"} /\ OfRun(returned, run) # <<>>)
        => LET f == Last(OfRun(returned, run))["key"]
           IN /\ bookmark(state) = isoformat(ts(f))
              /\ strptime_with_tz(bookmark(state)) = ts(f)
              /\ bookmark(persisted) = bookmark(state)
              /\ persisted = state

C2_Witness ==
    /\ pc = "rows"
    /\ row_idx = 0
    /\ Len(OfRun(returned, run)) = 1
    /\ s3_file["key"] # Last(OfRun(returned, run))["key"]
    /\ bookmark(persisted) = isoformat(ts(Last(OfRun(returned, run))["key"]))

\* C3: when the transform of a row of file N fails, the bookmark (in memory
\* and persisted) is the timestamp of file N-1, or what it was when the run
\* began if N = 1; no bookmark is written and no state persisted for file N,
\* and no file after N is handed to sync_table_file.
C3_FailedFileLeavesBookmark ==
    /\ (pc = "raised" /\ error = "transform") =>
          LET done == OfRun(returned, run)
              expected == IF done = <<>> THEN bookmark(state0)
                          ELSE isoformat(ts(Last(done)["key"]))
          IN /\ bookmark(state) = expected
             /\ bookmark(persisted) = expected
             /\ Last(handed) = [run |-> run, key |-> s3_file["key"]]
    /\ \A i \in DOMAIN handed :
          ~AllRowsPass(handed[i]["key"]) =>
              /\ \A w \in DOMAIN written :
                    ~(/\ written[w]["run"] = handed[i]["run"]
                      /\ written[w]["key"] = handed[i]["key"])
              /\ \A j \in DOMAIN handed :
                    j > i => handed[j]["run"] > handed[i]["run"]

C3_Witness ==
    /\ pc = "raised"
    /\ error = "transform"
    /\ Len(OfRun(returned, run)) = 1
    /\ bookmark(persisted) = isoformat(ts(Last(OfRun(returned, run))["key"]))
    /\ bookmark(persisted) # bookmark(state0)

\* C4: over consecutive runs, no file that sync_table_file fully processed
\* in an earlier run is handed to it again, and every file newer than the
\* start date that no earlier run fully processed is among the files the
\* next run discovers.
C4_NoReprocessNoSkip ==
    /\ \A i \in DOMAIN returned : \A j \in DOMAIN handed :
          handed[j]["key"] = returned[i]["key"]
              => handed[j]["run"] <= returned[i]["run"]
    /\ (run >= 2 /\ error \notin {"KeyError", "discovery"}) =>
          \A k \in Keys :
              (/\ ts(k) > FirstWatermark
               /\ \A i \in DOMAIN returned : returned[i]["key"] # k)
                  => k \in DiscoveredKeys

\* C5: every value written to the modified_since bookmark is at least the
\* value it replaces, and at least the watermark the run started from.
C5_BookmarkMonotonic ==
    \A w \in DOMAIN written :
        /\ written[w]["old"] # None
              => strptime_with_tz(written[w]["new"])
                    >= strptime_with_tz(written[w]["old"])
        /\ written[w]["run"] = run
              => strptime_with_tz(written[w]["new"]) >= modified_since

C5_Witness ==
    /\ Len(s3_files) >= 2
    /\ s3_files[1]["last_modified"] > s3_files[2]["last_modified"]
    /\ Len(OfRun(written, run)) = 2
    /\ Last(written)["old"] # None
    /\ strptime_with_tz(Last(written)["new"])
          > strptime_with_tz(Last(written)["old"])

\* Every row of file k has been emitted as a record (in some run).
FullyEmitted(k) ==
    \A r \in DOMAIN rows(k) :
        \E e \in DOMAIN emitted :
            emitted[e]["key"] = k /\ emitted[e]["row"] = r

\* C6: whenever the persisted bookmark equals or exceeds the last_modified
\* of a discovered file, every row of that file has been emitted.
C6_PersistedOnlyCompleted ==
    \A k \in DiscoveredKeys :
        (/\ bookmark(persisted) # None
         /\ strptime_with_tz(bookmark(persisted)) >= ts(k))
            => FullyEmitted(k)

\* The rows of file k emitted during run r, as a set of row numbers.
EmittedRows(r, k) ==
    {emitted[e]["row"] : e \in {x \in DOMAIN emitted :
                                  emitted[x]["run"] = r /\ emitted[x]["key"] = k}}

\* The call of sync_table_file for handed[i] is over.
CallOver(i) ==
    \/ handed[i]["run"] < run
    \/ i < Len(handed)
    \/ pc \in {"raised", "done", "loop", "bookmark", "persist"}

\* C7: the records emitted for a file are always those of a prefix of its
\* rows, ending before the first row whose transform fails; once the call is
\* over they are exactly the rows before that row, the call has not returned
\* a count, and at the failure nothing but a new run can follow.
C7_FailFast ==
    /\ \A i \in DOMAIN handed :
          LET r == handed[i]["run"]
              k == handed[i]["key"]
          IN /\ \E n \in 0..(FirstBad(k) - 1) : EmittedRows(r, k) = 1..n
             /\ (CallOver(i) /\ ~FetchFailed(i))
                   => EmittedRows(r, k) = 1..(FirstBad(k) - 1)
             /\ ~AllRowsPass(k) =>
                   \A j \in DOMAIN returned :
                       ~(returned[j]["run"] = r /\ returned[j]["key"] = k)
    /\ (pc = "raised" /\ error = "transform") =>
          /\ row_idx = FirstBad(s3_file["key"])
          /\ records_synced = row_idx - 1
          /\ ~ENABLED sync_table_file_row
          /\ ~ENABLED sync_table_file_return
          /\ ~ENABLED sync_stream_write_bookmark
          /\ ~ENABLED sync_table_file_begin

C7_Witness ==
    /\ pc = "raised"
    /\ error = "transform"
    /\ row_idx = 2
    /\ Len(rows(s3_file["key"])) = 3
    /\ ~RowFails(rows(s3_file["key"])[3])
    /\ EmittedRows(run, s3_file["key"]) = {1}

\* C8: for a file whose rows all pass validation, the count sync_table_file
\* returns is the number of rows of the file, and the call emitted exactly
\* one record per row.
C8_CountEqualsRows ==
    \A i \in DOMAIN returned :
        LET r == returned[i]["run"]
            k == returned[i]["key"]
            recs == {e \in DOMAIN emitted :
                        emitted[e]["run"] = r /\ emitted[e]["key"] = k}
        IN AllRowsPass(k) =>
              /\ returned[i]["count"] = Len(rows(k))
              /\ Cardinality(recs) = Len(rows(k))
              /\ \A n \in DOMAIN rows(k) :
                    Cardinality({e \in recs : emitted[e]["row"] = n}) = 1

C8_Witness ==
    \E i \in DOMAIN returned :
        /\ AllRowsPass(returned[i]["key"])
        /\ returned[i]["count"] = 3
        /\ Len(rows(returned[i]["key"])) = 3

RECURSIVE SumRows(_)
SumRows(S) ==
    IF S = {} THEN 0
    ELSE LET k == CHOOSE x \in S : TRUE
         IN Len(rows(k)) + SumRows(S \ {k})

RECURSIVE SumCounts(_)
SumCounts(seq) ==
    IF seq = <<>> THEN 0 ELSE Head(seq)["count"] + SumCounts(Tail(seq))

\* C9: a run in which no file fails returns the sum of the per-file counts
\* over all discovered files, and leaves the bookmark at the greatest
\* last_modified among them.
C9_TotalAndFinalBookmark ==
    pc = "done" =>
        /\ {OfRun(returned, run)[i]["key"] : i \in DOMAIN OfRun(returned, run)}
              = DiscoveredKeys
        /\ Len(OfRun(returned, run)) = Len(s3_files)
        /\ records_streamed = SumCounts(OfRun(returned, run))
        /\ records_streamed = SumRows(DiscoveredKeys)
        /\ s3_files # <<>> =>
              /\ bookmark(state) # None
              /\ \A k \in DiscoveredKeys : strptime_with_tz(bookmark(state)) >= ts(k)
              /\ \E k \in DiscoveredKeys : bookmark(state) = isoformat(ts(k))
              /\ persisted = state

\* The scenario of the specification: discovery returns the newer file
\* (3 rows) before the older one (2 rows).
C9_Witness ==
    /\ pc = "done"
    /\ run = 1
    /\ Len(s3_files) = 2
    /\ s3_files[1]["last_modified"] = 2
    /\ Len(rows(s3_files[1]["key"])) = 3
    /\ s3_files[2]["last_modified"] = 1
    /\ Len(rows(s3_files[2]["key"])) = 2
    /\ handed = <<[run |-> 1, key |-> s3_files[2]["key"]],
                  [run |-> 1, key |-> s3_files[1]["key"]]>>
    /\ records_streamed = 5
    /\ bookmark(state) = isoformat(2)

\* C10: no byte stream is open once the call of sync_table_file that
\* obtained it has returned or raised.
C10_HandleReleased ==
    handles \subseteq
        (IF pc = "rows" THEN {[run |-> run, key |-> s3_file["key"]]} ELSE {})

\* C11: with set_empty_values_null true, the blank name of a row reaches the
\* transformer, and so the emitted record, as null; with the flag absent or
\* false the field reaches it as the string the iterator yielded.
C11_BlankBecomesNullUnderFlag ==
    \A e \in DOMAIN emitted :
        LET raw == row_of[rows(emitted[e]["key"])[emitted[e]["row"]]]
            on == /\ "set_empty_values_null" \in DOMAIN config
                  /\ config["set_empty_values_null"]
        IN /\ field(raw, "name") = PyStr(<<>>)
           /\ on => field(emitted[e]["record"], "name") = PyNone
           /\ ~on => field(emitted[e]["record"], "name") = PyStr(<<>>)
           /\ field(emitted[e]["record"], "age") = PyInt(5)

C11_Witness ==
    /\ "set_empty_values_null" \in DOMAIN config
    /\ config["set_empty_values_null"]
    /\ emitted # <<>>
    /\ Last(emitted)["record"]
          = PyDict(<<<<"name", PyNone>>, <<"age", PyInt(5)>>>>)

\* --------------------------------- vocabulary of the claims about the heap
\* The argument and the results of the calls, as values.
Argument == value_of(heap0, input_row)
Result(n) == IF ret[n] = Raised THEN TypeError ELSE value_of(heap, ret[n])

IsContainer(v) == is_dict(v) \/ is_list(v) \/ is_tuple(v)

RECURSIVE HasTuple(_)
HasTuple(v) ==
    \/ is_tuple(v)
    \/ \E i \in DOMAIN children(v) : HasTuple(children(v)[i])

\* The empty string or a string of whitespace only.
BlankString(v) ==
    /\ "str" \in DOMAIN v
    /\ \A i \in DOMAIN v["str"] : v["str"][i] \in {" ", "\t"}

\* The ids of the objects reachable from id, and the mutable ones among them.
RECURSIVE Reach(_, _)
Reach(h, id) ==
    {id} \cup UNION {Reach(h, children(h[id])[i]) : i \in DOMAIN children(h[id])}

Mutable(h, ids) == {i \in ids : is_dict(h[i]) \/ is_list(h[i])}

\* C12: a second application of set_empty_values_null returns a value equal
\* to the one the first application returned.
C12_Idempotent ==
    Len(ret) = 2 => (ret[2] # Raised /\ Result(2) = Result(1))

C12_Witness ==
    /\ Len(ret) = 2
    /\ IsContainer(Argument)
    /\ Result(1) # Argument
    /\ Result(2) = Result(1)

\* w has the container types, keys and indices of v at every level.
RECURSIVE SameShape(_, _)
SameShape(v, w) ==
    IF IsContainer(v)
    THEN /\ is_dict(v) = is_dict(w)
         /\ is_list(v) = is_list(w)
         /\ is_tuple(v) = is_tuple(w)
         /\ Len(children(v)) = Len(children(w))
         /\ is_dict(v) => \A i \in DOMAIN v["dict"] :
                              v["dict"][i][1] = w["dict"][i][1]
         /\ \A i \in DOMAIN children(v) :
               SameShape(children(v)[i], children(w)[i])
    ELSE ~IsContainer(w)

\* Every scalar leaf of w is null exactly when the leaf of v in its place is
\* a blank string, and is the leaf of v otherwise.
RECURSIVE LeavesNullIffBlank(_, _)
LeavesNullIffBlank(v, w) ==
    IF IsContainer(v)
    THEN \A i \in DOMAIN children(v) :
            LeavesNullIffBlank(children(v)[i], children(w)[i])
    ELSE /\ ("none" \in DOMAIN w) <=> BlankString(v)
         /\ ~BlankString(v) => w = v

\* The same, with a leaf that is already null staying null.
RECURSIVE LeavesNullIffBlankOrNull(_, _)
LeavesNullIffBlankOrNull(v, w) ==
    IF IsContainer(v)
    THEN \A i \in DOMAIN children(v) :
            LeavesNullIffBlankOrNull(children(v)[i], children(w)[i])
    ELSE /\ ("none" \in DOMAIN w) <=> (BlankString(v) \/ "none" \in DOMAIN v)
         /\ ~BlankString(v) => w = v

\* C13 as stated: for a structure of mappings and lists the result has the
\* same container types, keys and indices, and a leaf of it is null exactly
\* when the input leaf is the empty or a whitespace-only string, and is the
\* input leaf otherwise.
C13_NullExactlyWhenBlank ==
    (ret # <<>> /\ ~HasTuple(Argument)) =>
        /\ ret[1] # Raised
        /\ SameShape(Argument, Result(1))
        /\ LeavesNullIffBlank(Argument, Result(1))

\* C13 amended: the same, except that a leaf is null exactly when the input
\* leaf is the empty string, a whitespace-only string or already null.
C13_ShapeKeptBlanksNulled ==
    (ret # <<>> /\ ~HasTuple(Argument)) =>
        /\ ret[1] # Raised
        /\ SameShape(Argument, Result(1))
        /\ LeavesNullIffBlankOrNull(Argument, Result(1))

C13_Witness ==
    /\ ret # <<>>
    /\ Argument = Example
    /\ Result(1) =
          PyDict(<<<<"a", PyNone>>,
                   <<"b", PyList(<<PyNone, PyStr(<<"x">>),
                                   PyDict(<<<<"c", PyNone>>>>)>>)>>>>)

\* C14: a tuple, at top level or nested, empty or not, is accepted: the call
\* does not fail and returns a value of the same shape (a tuple of the same
\* length where the argument has one) with every element normalized.
C14_TupleAccepted ==
    (ret # <<>> /\ HasTuple(Argument)) =>
        /\ ret[1] # Raised
        /\ SameShape(Argument, Result(1))
        /\ LeavesNullIffBlankOrNull(Argument, Result(1))

\* C15: the call leaves every object of its argument as it was, at every
\* nesting level, and the value it returns shares no list or dict with the
\* argument.
C15_ArgumentNotMutated ==
    ret # <<>> =>
        /\ \A id \in DOMAIN heap0 : heap[id] = heap0[id]
        /\ ret[1] # Raised =>
              Mutable(heap, Reach(heap, ret[1]))
                  \cap Reach(heap0, input_row) = {}

C15_Witness ==
    /\ ret # <<>>
    /\ ret[1] # Raised
    /\ is_list(Argument) /\ Len(Argument["list"]) = 2
    /\ is_dict(Argument["list"][2])
    /\ Result(1) # Argument
    /\ value_of(heap, input_row) = Argument

\* ------------------------------------ vocabulary of the later claims
\* The stored modified_since bookmark of the effective table, read from the
\* state without the help of the code's own lookups.
EffectiveTable ==
    table_spec["table_name"]
        \o (IF "table_suffix" \in DOMAIN config THEN config["table_suffix"]
            ELSE <<>>)

Stored(st) ==
    IF <<EffectiveTable, "modified_since">> \in DOMAIN st
    THEN st[<<EffectiveTable, "modified_since">>]
    ELSE None

\* C16: the starting watermark is the table's modified_since bookmark when
\* the state has one and the config's start_date otherwise; with neither, the
\* run fails with a KeyError and has listed no file, handed no file to
\* sync_table_file, emitted no record, written no bookmark and persisted
\* nothing.
C16_WatermarkResolution ==
    run >= 1 =>
        /\ (Stored(state0) # None /\ error # "KeyError")
              => modified_since = strptime_with_tz(Stored(state0))
        /\ (Stored(state0) = None /\ "start_date" \in DOMAIN config)
              => /\ error # "KeyError"
                 /\ modified_since = strptime_with_tz(config["start_date"])
        /\ (Stored(state0) = None /\ "start_date" \notin DOMAIN config)
              => /\ pc = "raised"
                 /\ error = "KeyError"
                 /\ s3_files = <<>>
                 /\ OfRun(handed, run) = <<>>
                 /\ OfRun(emitted, run) = <<>>
                 /\ OfRun(written, run) = <<>>
                 /\ state = state0
                 /\ persisted = state0
        /\ error = "KeyError" => Stored(state0) = None

C16_Witness ==
    /\ run = 2
    /\ pc = "raised"
    /\ error = "KeyError"
    /\ "start_date" \notin DOMAIN config
    /\ Stored(state) = None

\* C17: a discovery failure ends the run with no record emitted and the
\* state neither changed nor persisted; a failure to open file N ends it with
\* no record of file N or of a later file emitted and the bookmark at the
\* timestamp of file N-1 (or at its value before the run); nothing of
\* sync_stream runs after either.
C17_StorageErrorsTerminate ==
    /\ error = "discovery" =>
          /\ pc = "raised"
          /\ OfRun(handed, run) = <<>>
          /\ OfRun(emitted, run) = <<>>
          /\ OfRun(written, run) = <<>>
          /\ state = state0
          /\ persisted = state0
    /\ error = "fetch" =>
          LET done == OfRun(returned, run)
              expected == IF done = <<>> THEN Stored(state0)
                          ELSE isoformat(ts(Last(done)["key"]))
          IN /\ pc = "raised"
             /\ Last(handed) = [run |-> run, key |-> s3_file["key"]]
             /\ EmittedRows(run, s3_file["key"]) = {}
             /\ \A i \in DOMAIN todo : EmittedRows(run, todo[i]["key"]) = {}
             /\ Stored(state) = expected
             /\ Stored(persisted) = expected
    /\ error \in {"discovery", "fetch"} =>
          /\ ~ENABLED sync_table_file_begin
          /\ ~ENABLED sync_table_file_row
          /\ ~ENABLED sync_table_file_return
          /\ ~ENABLED sync_stream_write_bookmark
          /\ ~ENABLED sync_stream_write_state
          /\ ~ENABLED sync_stream_return

C17_Witness ==
    /\ pc = "raised"
    /\ error = "fetch"
    /\ Len(OfRun(returned, run)) = 1
    /\ OfRun(emitted, run) # <<>>
    /\ Stored(persisted) = isoformat(ts(Last(OfRun(returned, run))["key"]))
    /\ Stored(persisted) # Stored(state0)

\* C18: the write_state calls of a run are, in order, one for each file whose
\* sync_table_file call returned, each carrying the bookmark of that file,
\* and there is no other; a run that found no eligible file returns 0 and has
\* neither written a bookmark nor called write_state.
C18_PersistOncePerCompletedFile ==
    LET done == OfRun(returned, run)
        msgs == OfRun(state_messages, run)
        due == IF pc \in {"bookmark", "persist"} THEN Len(done) - 1
               ELSE Len(done)
    IN /\ Len(msgs) = due
       /\ \A i \in DOMAIN msgs :
             /\ msgs[i]["key"] = done[i]["key"]
             /\ Stored(msgs[i]["state"]) = isoformat(ts(done[i]["key"]))
       /\ (pc = "done" /\ s3_files = <<>>) =>
             /\ records_streamed = 0
             /\ OfRun(written, run) = <<>>
             /\ msgs = <<>>
             /\ state = state0
             /\ persisted = state0

C18_Witness ==
    /\ run = 2
    /\ pc = "done"
    /\ s3_files = <<>>
    /\ records_streamed = 0
    /\ state_messages # <<>>
    /\ OfRun(state_messages, run) = <<>>

\* The entries of a state other than the modified_since bookmark of the
\* effective table are those of the state the run was called with.
OthersKept(st) ==
    /\ DOMAIN st \ {<<EffectiveTable, "modified_since">>}
          = DOMAIN state0 \ {<<EffectiveTable, "modified_since">>}
    /\ \A p \in DOMAIN state0 :
          p # <<EffectiveTable, "modified_since">> => st[p] = state0[p]

\* C19: at every point of a run, the working state, the persisted state and
\* every state handed to write_state in the run differ from the state the run
\* was called with at most in the modified_since bookmark of the table named
\* table_name + table_suffix; no step changes the config.
C19_OnlyOwnBookmarkChanges ==
    [][/\ config' = config
       /\ OthersKept(state')
       /\ OthersKept(persisted')
       /\ \A i \in DOMAIN state_messages' :
             state_messages'[i]["run"] = run'
                => OthersKept(state_messages'[i]["state"])]_vars

C19_Witness ==
    /\ pc = "done"
    /\ "table_suffix" \in DOMAIN config
    /\ OfRun(written, run) # <<>>
    /\ Stored(state) # Stored(state0)
    /\ <<table_spec["table_name"], "modified_since">> \in DOMAIN state
    /\ <<EffectiveTable, "version">> \in DOMAIN state
    /\ <<other_table, "modified_since">> \in DOMAIN state
    /\ persisted = state

\* The place of an emitted record's file among the files handed to
\* sync_table_file.
HandIdx(e) ==
    CHOOSE h \in DOMAIN handed :
        handed[h] = [run |-> e["run"], key |-> e["key"]]

\* The records emitted before position i for the same file in the same run.
EarlierOfFile(i) ==
    {j \in 1..(i - 1) : /\ emitted[j]["run"] = emitted[i]["run"]
                        /\ emitted[j]["key"] = emitted[i]["key"]}

\* C20: the sink receives the records of a file in the order of the file's
\* rows, none skipped; the records of a file handed over earlier all come
\* before those of a file handed over later, so the records of two files
\* never interleave; and when the bookmark of a file is written every row of
\* that file has been emitted, and none is emitted afterwards.
C20_EmissionOrder ==
    /\ \A i \in DOMAIN emitted :
          LET e == emitted[i]
          IN /\ \E h \in DOMAIN handed :
                   handed[h] = [run |-> e["run"], key |-> e["key"]]
             /\ e["row"] = Cardinality(EarlierOfFile(i)) + 1
             /\ e["row"] \in DOMAIN rows(e["key"])
             /\ e["record"]
                   = transform(row_for_transformer(config,
                                                   rows(e["key"])[e["row"]]))
    /\ \A i, j \in DOMAIN emitted :
          i < j => HandIdx(emitted[i]) <= HandIdx(emitted[j])
    /\ \A w \in DOMAIN written :
          LET of_file == {i \in DOMAIN emitted :
                             /\ emitted[i]["run"] = written[w]["run"]
                             /\ emitted[i]["key"] = written[w]["key"]}
          IN Cardinality(of_file) = Len(rows(written[w]["key"]))
    /\ pc = "bookmark" =>
          EmittedRows(run, s3_file["key"]) = DOMAIN rows(s3_file["key"])

C20_Witness ==
    /\ pc = "done"
    /\ Len(OfRun(handed, run)) = 2
    /\ Len(OfRun(written, run)) = 2
    /\ \A h \in DOMAIN handed : Len(rows(handed[h]["key"])) >= 2
    /\ Len(OfRun(emitted, run)) >= 4

====
